---- MODULE Spec2Model ----
(***************************************************************************)
(* Model of wiktionary_translation_extractor.py: the argument splitter     *)
(* (generate_arguments), the term decoder (decode_term), the line loop     *)
(* with its page/block state and the final drain into the Translations     *)
(* table.                                                                  *)
(*                                                                         *)
(* A Python str is a sequence of one-character strings, so that "in",      *)
(* index, split, strip, replace, slicing and the regular expression are    *)
(* computed character by character as Python computes them.                *)
(***************************************************************************)
EXTENDS Integers, Sequences, FiniteSets, TLC

VARIABLES
    page_title,     \* main loop: title of the current page, or None
    recording,      \* main loop: inside a translation block
    group,          \* main loop: the current TranslationGroup, or NoGroup
    translations,   \* defaultdict(list), in insertion order: <<[word, groups]>>
    line,           \* the line the loop read last
    nread,          \* number of lines read so far
    pc,             \* "reading", "flushing", "done", "crashed", or "fn"
    rows,           \* the INSERT statements executed, in order
    committed,      \* db.commit() has run
    closed_ids,     \* history: ids of the groups appended by a trans-bottom line
                    \* read while recording
    decoded,        \* history: one record per template call decoded while recording
    wellformed,     \* history: the stream read so far is well formed
    fn_args,        \* argument of the function under test
    fn_out,         \* its result
    fn_pc           \* "idle", "call", "ret_ga", "ret_dt"

vars == <<page_title, recording, group, translations, line, nread, pc, rows,
          committed, closed_ids, decoded, wellformed, fn_args, fn_out, fn_pc>>

mainvars == <<page_title, recording, group, translations, line, nread, pc, rows,
              committed, closed_ids, decoded, wellformed>>

fnvars == <<fn_args, fn_out, fn_pc>>

(***************************************************************************)
(* Bounds.                                                                 *)
(***************************************************************************)
MaxLines == 5
MaxArgs == 3
MaxTokLen == 2
MaxDecodeArgs == 3

(***************************************************************************)
(* Python values.                                                          *)
(***************************************************************************)
\* None where a str may stand: no str equals it, a str holds only single characters.
None == <<"None">>

\* None where a TranslationGroup may stand (group = None).
NoGroup == [none |-> TRUE]

\* bool(s) of a str: the empty str is false, every other str is true.
Truthy(s) == Len(s) > 0

(***************************************************************************)
(* str operations.                                                         *)
(***************************************************************************)
\* s[i:i+len(m)] == m, i counted from 1.
MatchAt(s, i, m) ==
    /\ i >= 1
    /\ i + Len(m) - 1 <= Len(s)
    /\ SubSeq(s, i, i + Len(m) - 1) = m

\* m in s
In(m, s) == \E i \in 1..(Len(s) + 1) : MatchAt(s, i, m)

\* s.find(m, from): the least index >= from at which m occurs, 0 when none.
RECURSIVE Find(_, _, _)
Find(s, m, from) ==
    IF from + Len(m) - 1 > Len(s) THEN 0
    ELSE IF MatchAt(s, from, m) THEN from
    ELSE Find(s, m, from + 1)

\* Mutant: the index of the last occurrence.
Index_Last(s, c) ==
    CHOOSE i \in 1..Len(s) :
        MatchAt(s, i, c) /\ \A j \in (i + 1)..Len(s) : ~MatchAt(s, j, c)

\* s.index(c) for a c known to occur in s.
Index(s, c) == Find(s, c, 1)

\* s[from:] counted from 1, empty when from is past the end.
From(s, from) == IF from > Len(s) THEN <<>> ELSE SubSeq(s, from, Len(s))

\* s[:upto] counted from 1 (the first upto characters), empty when upto < 1.
Upto(s, upto) ==
    IF upto < 1 THEN <<>>
    ELSE IF upto > Len(s) THEN s
    ELSE SubSeq(s, 1, upto)

\* s[a:-b] for a >= 0, b > 0: drop the first a and the last b characters.
Slice(s, a, b) ==
    IF Len(s) - b <= a THEN <<>> ELSE SubSeq(s, a + 1, Len(s) - b)

\* s.endswith(m)
EndsWith(s, m) == Len(m) <= Len(s) /\ SubSeq(s, Len(s) - Len(m) + 1, Len(s)) = m

\* s.split(sep) for a non-empty separator: always at least one piece.
RECURSIVE Split(_, _)
Split(s, sep) ==
    LET i == Find(s, sep, 1) IN
    IF i = 0 THEN <<s>>
    ELSE <<Upto(s, i - 1)>> \o Split(From(s, i + Len(sep)), sep)

\* sep.join(parts)
RECURSIVE Join(_, _)
Join(sep, parts) ==
    IF parts = <<>> THEN <<>>
    ELSE IF Len(parts) = 1 THEN parts[1]
    ELSE parts[1] \o sep \o Join(sep, Tail(parts))

\* s.replace(m, ""): the occurrences of m found left to right, none overlapping.
RECURSIVE Remove(_, _)
Remove(s, m) ==
    IF s = <<>> THEN <<>>
    ELSE IF MatchAt(s, 1, m) THEN Remove(From(s, Len(m) + 1), m)
    ELSE <<s[1]>> \o Remove(Tail(s), m)

Whitespace == {" ", "\n", "\t"}

RECURSIVE LStrip(_)
LStrip(s) ==
    IF s # <<>> /\ s[1] \in Whitespace THEN LStrip(Tail(s)) ELSE s

RECURSIVE RStrip(_)
RStrip(s) ==
    IF s # <<>> /\ s[Len(s)] \in Whitespace THEN RStrip(SubSeq(s, 1, Len(s) - 1)) ELSE s

\* s.strip()
Strip(s) == RStrip(LStrip(s))

(***************************************************************************)
(* The literals of the source.                                             *)
(***************************************************************************)
EQ == <<"=">>
BAR == <<"|">>
COMMA == <<",">>
LINK_OPEN == <<"[", "[">>
LINK_CLOSE == <<"]", "]">>
BRACE_OPEN == <<"{", "{">>
BRACE_CLOSE == <<"}", "}">>
TITLE_MARK == <<"<", "t", "i", "t", "l", "e", ">">>
TITLE_END == <<"<", "/", "t", "i", "t", "l", "e", ">">>
TRANSLATIONS_SUFFIX == <<"/", "t", "r", "a", "n", "s", "l", "a", "t", "i", "o", "n", "s">>
TRANS_TOP == <<"{", "{", "t", "r", "a", "n", "s", "-", "t", "o", "p", "|">>
TRANS_BOTTOM == <<"{", "{", "t", "r", "a", "n", "s", "-", "b", "o", "t", "t", "o", "m", "}", "}">>
TRANS_MID == <<"{", "{", "t", "r", "a", "n", "s", "-", "m", "i", "d", "}", "}">>
QUALIFIER == <<"q", "u", "a", "l", "i", "f", "i", "e", "r">>
T_ == <<"t">>
T_PLUS == <<"t", "+">>
T_SIMPLE == <<"t", "-", "s", "i", "m", "p", "l", "e">>
TT == <<"t", "t">>
TT_PLUS == <<"t", "t", "+">>
TermTypes == {T_, T_PLUS, T_SIMPLE, TT, TT_PLUS}
KW_SC == <<"s", "c">>
KW_TR == <<"t", "r">>
KW_ALT == <<"a", "l", "t">>
KW_LIT == <<"l", "i", "t">>
KW_G == <<"g">>

(***************************************************************************)
(* generate_arguments                                                      *)
(***************************************************************************)
TypeError(msg) == [ok |-> FALSE, error |-> "TypeError", msg |-> msg]

\* keyword_arguments[key] = value
DictSet(d, key, value) ==
    [k \in (DOMAIN d) \cup {key} |-> IF k = key THEN value ELSE d[k]]

\* The loop of generate_arguments from argument i on, with the state it carries.
RECURSIVE GenerateArgumentsLoop(_, _, _, _, _)
GenerateArgumentsLoop(arguments, i, positional_arguments, keyword_arguments, keywords) ==
    IF i > Len(arguments)
    THEN [ok |-> TRUE, positional |-> positional_arguments, keyword |-> keyword_arguments]
    ELSE LET argument == arguments[i] IN
         IF In(EQ, argument)
         THEN LET split_index == Index(argument, EQ) IN
              GenerateArgumentsLoop(arguments, i + 1, positional_arguments,
                  DictSet(keyword_arguments, Upto(argument, split_index - 1),
                          From(argument, split_index + 1)),
                  TRUE)
         ELSE IF ~keywords
         THEN GenerateArgumentsLoop(arguments, i + 1,
                  Append(positional_arguments, argument), keyword_arguments, keywords)
         ELSE TypeError("arguments is not of correct format")

generate_arguments(arguments) ==
    GenerateArgumentsLoop(arguments, 1, <<>>, <<>>, FALSE)

(***************************************************************************)
(* decode_term                                                             *)
(***************************************************************************)
\* Translation(language_code, translation): the dataclass with its defaults.
Translation(language_code, translation) ==
    [language_code |-> language_code,
     translation |-> translation,
     is_equivalent_term |-> TRUE,
     gender |-> None,
     script_code |-> None,
     transliteration |-> None,
     alternate_form |-> None,
     literal_translation |-> None,
     qualifier |-> None]

\* The condition of line 95, `"[[" and "]]" in arguments[1]`: Python reads it as
\* "[[" and ("]]" in arguments[1]), and arguments[1] is the argument after the type.
IsLinkedPhrase(arguments) ==
    Truthy(LINK_OPEN) /\ In(LINK_CLOSE, arguments[2])

\* The body of decode_term after the checks: positional has two elements or more.
BuildTranslation(arguments, positional, keyword) ==
    LET r0 == Translation(positional[1], positional[2])
        r1 == IF IsLinkedPhrase(arguments)
              THEN [r0 EXCEPT !.is_equivalent_term = FALSE,
                              !.translation = Remove(Remove(r0.translation, LINK_OPEN),
                                                     LINK_CLOSE)]
              ELSE r0
        r2 == IF Len(positional) >= 3 THEN [r1 EXCEPT !.gender = positional[3]] ELSE r1
        r3 == IF KW_SC \in DOMAIN keyword
              THEN [r2 EXCEPT !.script_code = keyword[KW_SC]] ELSE r2
        r4 == IF KW_TR \in DOMAIN keyword
              THEN [r3 EXCEPT !.transliteration = keyword[KW_TR]] ELSE r3
        r5 == IF KW_ALT \in DOMAIN keyword
              THEN [r4 EXCEPT !.alternate_form = keyword[KW_ALT]] ELSE r4
        r6 == IF KW_LIT \in DOMAIN keyword
              THEN [r5 EXCEPT !.literal_translation = keyword[KW_LIT]] ELSE r5
        r7 == IF KW_G \in DOMAIN keyword
              THEN [r6 EXCEPT !.gender = keyword[KW_G]] ELSE r6
    IN r7

\* decode_term(arguments) for a non-empty list: [ok, value] or the TypeError raised.
decode_term(arguments) ==
    LET type == arguments[1] IN
    IF type \notin TermTypes THEN TypeError("Incorrect list type")
    ELSE LET ga == generate_arguments(Tail(arguments)) IN
         IF ~ga.ok THEN ga
         ELSE IF Len(ga.positional) < 2
         THEN TypeError("Missing required positional arguments")
         ELSE [ok |-> TRUE, value |-> BuildTranslation(arguments, ga.positional, ga.keyword)]

(***************************************************************************)
(* The recording branch of the main loop: one line inside a block.         *)
(***************************************************************************)
\* re.finditer(r"{{.*?}}", s) from index `from` on, each match without its braces
\* (x.group(0)[2:-2]); "." does not match a newline.
RECURSIVE FindCodeblocks(_, _)
FindCodeblocks(s, from) ==
    LET i == Find(s, BRACE_OPEN, from) IN
    IF i = 0 THEN <<>>
    ELSE LET j == Find(s, BRACE_CLOSE, i + 2) IN
         IF j = 0 THEN <<>>
         ELSE LET inner == IF j = i + 2 THEN <<>> ELSE SubSeq(s, i + 2, j - 1) IN
              IF In(<<"\n">>, inner) THEN FindCodeblocks(s, i + 1)
              ELSE <<inner>> \o FindCodeblocks(s, j + 2)

\* map(lambda x: x.group(0)[2:-2].split("|"), re.finditer(...)) as a list.
Codeblocks(translation) ==
    LET found == FindCodeblocks(translation, 1) IN
    [k \in 1..Len(found) |-> Split(found[k], BAR)]

\* Mutant: a qualifier call needs two arguments.
IsQualifierCall_AtLeastTwo(codeblock) == codeblock[1] = QUALIFIER /\ Len(codeblock) > 2

\* codeblock[0] == "qualifier" and len(codeblock) > 1
IsQualifierCall(codeblock) == codeblock[1] = QUALIFIER /\ Len(codeblock) > 1

\* Mutant: the qualifier of the segment before is kept.
ResetQualifier_Keep(qualifier) == qualifier

\* qualifier = None at the head of each comma segment: whatever the variable held
\* from the segment before is overwritten.
ResetQualifier(qualifier) == None

\* Mutant: a TypeError ends the loop over the segment's codeblocks.
ExceptContinue_Break(blocks, j) == Len(blocks) + 1

\* except TypeError: continue -- the index of the codeblock the loop goes on with.
ExceptContinue(blocks, j) == j + 1

\* group.translations.append(new_entry)
AppendEntry(grp, new_entry) ==
    [grp EXCEPT !.translations = Append(grp.translations, new_entry)]

\* The inner for loop from codeblock j on: the qualifier and the group it leaves.
RECURSIVE ProcessCodeblocks(_, _, _, _)
ProcessCodeblocks(blocks, j, qualifier, grp) ==
    IF j > Len(blocks) THEN [qualifier |-> qualifier, group |-> grp]
    ELSE LET codeblock == blocks[j] IN
         IF IsQualifierCall(codeblock)
         THEN ProcessCodeblocks(blocks, j + 1, Join(BAR, Tail(codeblock)), grp)
         ELSE LET r == decode_term(codeblock) IN
              IF r.ok
              THEN ProcessCodeblocks(blocks, j + 1, qualifier,
                       AppendEntry(grp, [r.value EXCEPT !.qualifier = qualifier]))
              ELSE ProcessCodeblocks(blocks, ExceptContinue(blocks, j), qualifier, grp)

(***************************************************************************)
(* The main loop.                                                          *)
(***************************************************************************)
\* TranslationGroup(meaning, []); id is the identity of the object created.
TranslationGroup(meaning, id) == [meaning |-> meaning, translations |-> <<>>, id |-> id]

\* translations[key].append(g) on the defaultdict(list), keys in insertion order.
DictAppend(d, key, g) ==
    IF \E k \in 1..Len(d) : d[k].word = key
    THEN [k \in 1..Len(d) |->
             IF d[k].word = key THEN [d[k] EXCEPT !.groups = Append(d[k].groups, g)]
             ELSE d[k]]
    ELSE Append(d, [word |-> key, groups |-> <<g>>])

\* The title of a "<title>" line: line.strip()[7:-8], without a "/translations" suffix.
PageTitle(l) ==
    LET t == Slice(Strip(l), 7, 8) IN
    IF EndsWith(t, TRANSLATIONS_SUFFIX) THEN Upto(t, Len(t) - 13) ELSE t

\* The meaning of a "{{trans-top|" line: line.strip()[12:-2].
Meaning(l) == Slice(Strip(l), 12, 2)

\* The parameters of one INSERT; group_id is history, not a column.
Row(word, g, translation) ==
    [word |-> word,
     meaning |-> g.meaning,
     language |-> translation.language_code,
     translation |-> translation.translation,
     isEquivalent |-> translation.is_equivalent_term,
     gender |-> translation.gender,
     scriptCode |-> translation.script_code,
     transliteration |-> translation.transliteration,
     alternate |-> translation.alternate_form,
     literal |-> translation.literal_translation,
     qualifier |-> translation.qualifier,
     group_id |-> g.id]

\* for translation in group.translations: cursor.execute(INSERT ...)
GroupRows(word, g) ==
    [k \in 1..Len(g.translations) |-> Row(word, g, g.translations[k])]

\* for group in meaning_group, from group k on: group.translations of None raises
\* AttributeError, which nothing catches.
RECURSIVE DrainGroups(_, _, _, _)
DrainGroups(word, groups, k, acc) ==
    IF k > Len(groups) THEN [ok |-> TRUE, rows |-> acc]
    ELSE IF groups[k] = NoGroup THEN [ok |-> FALSE, rows |-> acc]
    ELSE DrainGroups(word, groups, k + 1, acc \o GroupRows(word, groups[k]))

\* for word, meaning_group in translations.items(), from item i on.
RECURSIVE DrainPages(_, _, _)
DrainPages(d, i, acc) ==
    IF i > Len(d) THEN [ok |-> TRUE, rows |-> acc]
    ELSE LET r == DrainGroups(d[i].word, d[i].groups, 1, acc) IN
         IF r.ok THEN DrainPages(d, i + 1, r.rows) ELSE r

(***************************************************************************)
(* The input: lines of a dump.                                             *)
(***************************************************************************)
Tmpl(tokens) == BRACE_OPEN \o Join(BAR, tokens) \o BRACE_CLOSE

NL == <<"\n">>
SP == <<" ">>
W_A == <<"A">>
W_B == <<"B">>
W_m == <<"m">>
W_n == <<"n">>
W_es == <<"e", "s">>
W_fr == <<"f", "r">>
W_de == <<"d", "e">>
W_a == <<"a">>
W_b == <<"b">>
W_c == <<"c">>
W_x == <<"x">>
W_f == <<"f">>
W_g == <<"g">>
W_hola == <<"h", "o", "l", "a">>
W_formal == <<"f", "o", "r", "m", "a", "l">>
W_g_m == <<"g", "=", "m">>
W_tr_k == <<"t", "r", "=", "k">>

L_titleA == SP \o SP \o TITLE_MARK \o W_A \o TRANSLATIONS_SUFFIX \o TITLE_END \o NL
L_titleB == TITLE_MARK \o W_B \o TITLE_END \o NL
L_top_m == TRANS_TOP \o W_m \o BRACE_CLOSE \o NL
L_top_n == TRANS_TOP \o W_n \o BRACE_CLOSE \o NL
L_bottom == TRANS_BOTTOM \o NL
L_mid == TRANS_MID \o NL
\* * {{qualifier|formal}} {{t|es|hola}}
L_qual == <<"*">> \o SP \o Tmpl(<<QUALIFIER, W_formal>>) \o SP
          \o Tmpl(<<T_, W_es, W_hola>>) \o NL
\* {{qualifier|f|g}}{{t|es|a}}{{x|es|b}}{{tt|es|b}}, {{t+|de|c|m|tr=k}}
L_multi == Tmpl(<<QUALIFIER, W_f, W_g>>) \o Tmpl(<<T_, W_es, W_a>>)
           \o Tmpl(<<W_x, W_es, W_b>>) \o Tmpl(<<TT, W_es, W_b>>) \o COMMA \o SP
           \o Tmpl(<<T_PLUS, W_de, W_c, W_m, W_tr_k>>) \o NL
\* {{t||}},{{t|fr}}{{t|fr|g=m|b}}{{t-simple|fr|b}}
L_bad == Tmpl(<<T_, <<>>, <<>>>>) \o COMMA \o Tmpl(<<T_, W_fr>>)
         \o Tmpl(<<T_, W_fr, W_g_m, W_b>>) \o Tmpl(<<T_SIMPLE, W_fr, W_b>>) \o NL

InputLines ==
    {L_titleA, L_titleB, L_top_m, L_top_n, L_bottom, L_mid, L_qual, L_multi, L_bad}

\* Which branch of the if/elif chain of the loop body a line takes.
Branch(l) ==
    IF In(TITLE_MARK, l) THEN "title"
    ELSE IF In(TRANS_TOP, l) THEN "top"
    ELSE IF In(TRANS_BOTTOM, l) THEN "bottom"
    ELSE IF In(TRANS_MID, l) THEN "mid"
    ELSE "other"

\* For each comma segment of a line, in order, the codeblocks found in it.
Tokenize(l) ==
    LET segments == Split(l, COMMA) IN
    [i \in 1..Len(segments) |-> Codeblocks(segments[i])]

\* Branch and Tokenize for the input lines, computed once.
BranchOf == [l \in InputLines |-> Branch(l)]
TokensOf == [l \in InputLines |-> Tokenize(l)]

IsTitleLine(l) == BranchOf[l] = "title"
IsTopLine(l) == BranchOf[l] = "top"
IsBottomLine(l) == BranchOf[l] = "bottom"
IsMidLine(l) == BranchOf[l] = "mid"
IsOtherLine(l) == BranchOf[l] = "other"

\* The outer for loop over line.split(","), from segment i on; segments[i] holds
\* the codeblocks of the i-th segment.
RECURSIVE ProcessSegments(_, _, _, _)
ProcessSegments(segments, i, qualifier, grp) ==
    IF i > Len(segments) THEN grp
    ELSE LET r == ProcessCodeblocks(segments[i], 1, ResetQualifier(qualifier), grp)
         IN ProcessSegments(segments, i + 1, r.qualifier, r.group)

\* The whole recording branch for one line: the group after it.
ProcessLine(l, grp) == ProcessSegments(TokensOf[l], 1, None, grp)

(***************************************************************************)
(* Actions of the main loop: one per branch of the if/elif chain.          *)
(***************************************************************************)
Read(l) ==
    /\ pc = "reading"
    /\ nread < MaxLines
    /\ line' = l
    /\ nread' = nread + 1
    /\ UNCHANGED <<pc, rows, committed, fn_args, fn_out, fn_pc>>

Title(l) ==
    /\ Read(l)
    /\ IsTitleLine(l)
    /\ page_title' = PageTitle(l)
    /\ wellformed' = (wellformed /\ ~recording)
    /\ UNCHANGED <<recording, group, translations, closed_ids, decoded>>

\* Mutant: a block opened while recording first appends the group it supersedes.
TransTop_FlushPrevious(l) ==
    /\ Read(l)
    /\ IsTopLine(l)
    /\ recording' = TRUE
    /\ group' = TranslationGroup(Meaning(l), nread + 1)
    /\ translations' = IF recording THEN DictAppend(translations, page_title, group)
                       ELSE translations
    /\ wellformed' = (wellformed /\ ~recording /\ page_title # None)
    /\ UNCHANGED <<page_title, closed_ids, decoded>>

TransTop(l) ==
    /\ Read(l)
    /\ IsTopLine(l)
    /\ recording' = TRUE
    /\ group' = TranslationGroup(Meaning(l), nread + 1)
    /\ wellformed' = (wellformed /\ ~recording /\ page_title # None)
    /\ UNCHANGED <<page_title, translations, closed_ids, decoded>>

TransBottom(l) ==
    /\ Read(l)
    /\ IsBottomLine(l)
    /\ recording' = FALSE
    /\ translations' = DictAppend(translations, page_title, group)
    /\ closed_ids' = IF recording THEN closed_ids \cup {group.id} ELSE closed_ids
    /\ UNCHANGED <<page_title, group, decoded, wellformed>>

TransMid(l) ==
    /\ Read(l)
    /\ IsMidLine(l)
    /\ UNCHANGED <<page_title, recording, group, translations, closed_ids, decoded,
                   wellformed>>

Record(l) ==
    /\ Read(l)
    /\ IsOtherLine(l)
    /\ recording
    /\ group' = ProcessLine(l, group)
    /\ decoded' = decoded \o
           [k \in 1..(Len(group'.translations) - Len(group.translations)) |->
               Row(page_title, group', group'.translations[Len(group.translations) + k])]
    /\ UNCHANGED <<page_title, recording, translations, closed_ids, wellformed>>

Skip(l) ==
    /\ Read(l)
    /\ IsOtherLine(l)
    /\ ~recording
    /\ UNCHANGED <<page_title, recording, group, translations, closed_ids, decoded,
                   wellformed>>

\* The for loop over in_file ends.
EndOfFile ==
    /\ pc = "reading"
    /\ pc' = "flushing"
    /\ wellformed' = (wellformed /\ ~recording)
    /\ UNCHANGED <<page_title, recording, group, translations, line, nread, rows,
                   committed, closed_ids, decoded, fn_args, fn_out, fn_pc>>

\* The three nested for loops of INSERTs, then db.commit().
Flush ==
    /\ pc = "flushing"
    /\ LET r == DrainPages(translations, 1, <<>>) IN
       /\ rows' = r.rows
       /\ committed' = r.ok
       /\ pc' = IF r.ok THEN "done" ELSE "crashed"
    /\ UNCHANGED <<page_title, recording, group, translations, line, nread,
                   closed_ids, decoded, wellformed, fn_args, fn_out, fn_pc>>

NoResult == [pending |-> TRUE]

Init ==
    /\ page_title = None
    /\ recording = FALSE
    /\ group = NoGroup
    /\ translations = <<>>
    /\ line = <<>>
    /\ nread = 0
    /\ pc = "reading"
    /\ rows = <<>>
    /\ committed = FALSE
    /\ closed_ids = {}
    /\ decoded = <<>>
    /\ wellformed = TRUE
    /\ fn_args = <<>>
    /\ fn_out = NoResult
    /\ fn_pc = "idle"

Next ==
    \/ \E l \in InputLines : Title(l)
    \/ \E l \in InputLines : TransTop(l)
    \/ \E l \in InputLines : TransBottom(l)
    \/ \E l \in InputLines : TransMid(l)
    \/ \E l \in InputLines : Record(l)
    \/ \E l \in InputLines : Skip(l)
    \/ EndOfFile
    \/ Flush

Spec == Init /\ [][Next]_vars

(***************************************************************************)
(* generate_arguments and decode_term on their own: the argument is drawn  *)
(* from a bounded set, the action applies the function.                    *)
(***************************************************************************)
SeqsUpTo(S, n) == UNION {[1..k -> S] : k \in 0..n}

ArgChars == {"a", "="}
ArgLists == SeqsUpTo(SeqsUpTo(ArgChars, MaxTokLen), MaxArgs)

W_linked == <<"[", "[", "b", "o", "n", "]", "]", " ",
              "[", "[", "m", "a", "t", "i", "n", "]", "]">>
W_bon_matin == <<"b", "o", "n", " ", "m", "a", "t", "i", "n">>
W_tr_linked == <<"t", "r", "=", "[", "[", "k", "]", "]">>
DecodeTypes == TermTypes \cup {W_x, QUALIFIER}
DecodeTokens == {<<>>, W_fr, W_linked, LINK_CLOSE, W_g_m, W_tr_linked}
DecodeInputs ==
    {<<type>> \o rest : type \in DecodeTypes, rest \in SeqsUpTo(DecodeTokens, MaxDecodeArgs)}

InitFn(inputs) ==
    /\ page_title = None
    /\ recording = FALSE
    /\ group = NoGroup
    /\ translations = <<>>
    /\ line = <<>>
    /\ nread = 0
    /\ pc = "fn"
    /\ rows = <<>>
    /\ committed = FALSE
    /\ closed_ids = {}
    /\ decoded = <<>>
    /\ wellformed = TRUE
    /\ fn_args \in inputs
    /\ fn_out = NoResult
    /\ fn_pc = "call"

CallGenerateArguments ==
    /\ pc = "fn"
    /\ fn_pc = "call"
    /\ fn_out' = generate_arguments(fn_args)
    /\ fn_pc' = "ret_ga"
    /\ UNCHANGED <<mainvars, fn_args>>

CallDecodeTerm ==
    /\ pc = "fn"
    /\ fn_pc = "call"
    /\ fn_out' = decode_term(fn_args)
    /\ fn_pc' = "ret_dt"
    /\ UNCHANGED <<mainvars, fn_args>>

InitArgs == InitFn(ArgLists)
NextArgs == CallGenerateArguments
SpecArgs == InitArgs /\ [][NextArgs]_vars

InitDecode == InitFn(DecodeInputs)
NextDecode == CallDecodeTerm
SpecDecode == InitDecode /\ [][NextDecode]_vars

(***************************************************************************)
(* Definitions the properties are stated with.                             *)
(***************************************************************************)
\* A step of the loop that reads one more line.
ReadsLine == pc = "reading" /\ nread' = nread + 1

\* A step that takes the recording branch on the line it reads.
RecordsLine == ReadsLine /\ recording /\ BranchOf[line'] = "other"

\* The entries the step appends to the open group.
NewEntries ==
    IF Len(group'.translations) <= Len(group.translations) THEN <<>>
    ELSE SubSeq(group'.translations, Len(group.translations) + 1,
                Len(group'.translations))

\* The token has no "=" / the place of its first "=".
HasEq(token) == \E k \in 1..Len(token) : token[k] = "="
FirstEq(token) ==
    CHOOSE k \in 1..Len(token) : token[k] = "=" /\ \A m \in 1..(k - 1) : token[m] # "="
KeyOf(token) == [m \in 1..(FirstEq(token) - 1) |-> token[m]]
ValueOf(token) == [m \in 1..(Len(token) - FirstEq(token)) |-> token[FirstEq(token) + m]]

\* A qualifier call with at least one argument.
QualifierShape(codeblock) == codeblock[1] = QUALIFIER /\ Len(codeblock) >= 2

\* A template call the decoder accepts.
Accepted(codeblock) == ~QualifierShape(codeblock) /\ decode_term(codeblock).ok

\* The template calls of a tokenized line in order, each with its segment, its
\* place in the segment and its place in the line.
RECURSIVE CallsFrom(_, _, _)
CallsFrom(segments, i, n) ==
    IF i > Len(segments) THEN <<>>
    ELSE [j \in 1..Len(segments[i]) |->
             [seg |-> i, idx |-> j, pos |-> n + j, codeblock |-> segments[i][j]]]
         \o CallsFrom(segments, i + 1, n + Len(segments[i]))

Calls(l) == CallsFrom(TokensOf[l], 1, 0)

AcceptedCall(c) == Accepted(c.codeblock)
AcceptedCalls(l) == SelectSeq(Calls(l), AcceptedCall)

Max(S) == CHOOSE x \in S : \A y \in S : y <= x

\* The qualifier call last seen before call c in c's own segment / in the whole line.
QualifierInSegment(l, c) ==
    LET qs == {d \in 1..Len(Calls(l)) :
                  /\ Calls(l)[d].seg = c.seg
                  /\ Calls(l)[d].pos < c.pos
                  /\ QualifierShape(Calls(l)[d].codeblock)}
    IN IF qs = {} THEN None ELSE Join(BAR, Tail(Calls(l)[Max(qs)].codeblock))

QualifierInLine(l, c) ==
    LET qs == {d \in 1..Len(Calls(l)) :
                  /\ Calls(l)[d].pos < c.pos
                  /\ QualifierShape(Calls(l)[d].codeblock)}
    IN IF qs = {} THEN None ELSE Join(BAR, Tail(Calls(l)[Max(qs)].codeblock))

\* Every element of every page's group list.
StoredGroups ==
    UNION {{translations[i].groups[k] : k \in 1..Len(translations[i].groups)} :
              i \in 1..Len(translations)}

Count(seq, x) == Cardinality({k \in 1..Len(seq) : seq[k] = x})
SameRows(a, b) ==
    /\ Len(a) = Len(b)
    /\ \A k \in 1..Len(a) : Count(a, a[k]) = Count(b, a[k])

\* No block-close line was read outside a block: such a line appends None or a group
\* already appended.
NoStrayClose ==
    /\ NoGroup \notin StoredGroups
    /\ \A i \in 1..Len(translations) : \A k \in 1..Len(translations[i].groups) :
       \A i2 \in 1..Len(translations) : \A k2 \in 1..Len(translations[i2].groups) :
          translations[i].groups[k].id = translations[i2].groups[k2].id
              => (i = i2 /\ k = k2)

(***************************************************************************)
(* Properties.                                                             *)
(***************************************************************************)
\* C1: whenever decode_term accepts a call whose translation text (second positional
\* argument) contains both "[[" and "]]", the entry has is_equivalent_term = FALSE and
\* its text contains neither "[[" nor "]]".
C1_LinkedPhraseStripped ==
    (/\ fn_pc = "ret_dt"
     /\ fn_out.ok
     /\ In(LINK_OPEN, fn_args[3])
     /\ In(LINK_CLOSE, fn_args[3]))
    => /\ fn_out.value.is_equivalent_term = FALSE
       /\ ~In(LINK_OPEN, fn_out.value.translation)
       /\ ~In(LINK_CLOSE, fn_out.value.translation)

\* C2: every entry in the current group, in the page accumulation or in an emitted
\* row has a non-empty language_code and a non-empty text.
C2_RequiredFieldsNonEmpty ==
    /\ group # NoGroup =>
          \A k \in 1..Len(group.translations) :
              /\ group.translations[k].language_code # <<>>
              /\ group.translations[k].translation # <<>>
    /\ \A g \in StoredGroups : g # NoGroup =>
          \A k \in 1..Len(g.translations) :
              /\ g.translations[k].language_code # <<>>
              /\ g.translations[k].translation # <<>>
    /\ \A k \in 1..Len(rows) : rows[k].language # <<>> /\ rows[k].translation # <<>>

\* C3: a block-close line read while not recording changes nothing: the page
\* accumulation is unchanged and the loop stays out of recording.
C3_IdleCloseIsNoOp ==
    [][(ReadsLine /\ ~recording /\ BranchOf[line'] = "bottom")
          => (translations' = translations /\ recording' = FALSE)]_vars

\* C4: a template call that fails decoding aborts only itself: the run goes on, the
\* open group keeps the entries it had, and every call of the line that the decoder
\* accepts, before or after the failing one, is appended in order.
C4_FailedCallSkipsOnlyItself ==
    [][RecordsLine =>
          /\ pc' = "reading"
          /\ Len(group'.translations) >= Len(group.translations)
          /\ SubSeq(group'.translations, 1, Len(group.translations)) = group.translations
          /\ Len(NewEntries) = Len(AcceptedCalls(line'))
          /\ \A k \in 1..Len(NewEntries) :
                [NewEntries[k] EXCEPT !.qualifier = None]
                    = decode_term(AcceptedCalls(line')[k].codeblock).value]_vars

\* C4 witness: the line {{t||}},{{t|fr}}{{t|fr|g=m|b}}{{t-simple|fr|b}}, whose second
\* and third calls fail, was read in a block that already held an entry, and the
\* accepted call after the failing ones is the last entry.
C4_Witness ==
    /\ pc = "reading"
    /\ recording
    /\ line = L_bad
    /\ Len(group.translations) >= 3
    /\ group.translations[Len(group.translations)].language_code = W_fr
    /\ group.translations[Len(group.translations)].translation = W_b

\* C5: at the end of a well-formed stream (no title and no block-open line inside a
\* block, no block before the first title, no block open at the end) the rows
\* executed are exactly one per accepted template call, each with the title and the
\* meaning of the block the call stood in.
C5_RowsMatchAcceptedCalls ==
    (pc \in {"done", "crashed"} /\ wellformed) => SameRows(rows, decoded)

\* C5 where, in addition, no block-close line stands outside a block.
C5_RowsMatchWithoutStrayClose ==
    (pc \in {"done", "crashed"} /\ wellformed /\ NoStrayClose)
        => (pc = "done" /\ committed /\ SameRows(rows, decoded))

\* C6: generate_arguments raises the TypeError exactly when a token without "="
\* follows a token with "="; otherwise it returns the tokens without "=" in order
\* and a dict that maps the text before each keyword token's first "=" to the text
\* after it (of two tokens with the same key the later one stands).
C6_SplitterContract ==
    fn_pc = "ret_ga" =>
        LET n == Len(fn_args)
            misplaced == \E i \in 1..n : \E j \in (i + 1)..n :
                             HasEq(fn_args[i]) /\ ~HasEq(fn_args[j])
            NoEq(token) == ~HasEq(token)
            kws == {i \in 1..n : HasEq(fn_args[i])}
        IN IF misplaced
           THEN /\ ~fn_out.ok
                /\ fn_out.error = "TypeError"
                /\ fn_out.msg = "arguments is not of correct format"
           ELSE /\ fn_out.ok
                /\ fn_out.positional = SelectSeq(fn_args, NoEq)
                /\ DOMAIN fn_out.keyword = {KeyOf(fn_args[i]) : i \in kws}
                /\ \A i \in kws :
                      (\A j \in kws : j > i => KeyOf(fn_args[j]) # KeyOf(fn_args[i]))
                          => fn_out.keyword[KeyOf(fn_args[i])] = ValueOf(fn_args[i])

\* C6 witness: the call on <<"a=", "a">>, a positional token after a keyword token,
\* has returned with the error.
C6_Witness ==
    /\ fn_pc = "ret_ga"
    /\ fn_args = <<<<"a", "=">>, <<"a">>>>
    /\ ~fn_out.ok

\* C7: in a block, on a comma-free line made of a qualifier call with at least one
\* argument and then one accepted translation call, exactly one entry is appended
\* and its qualifier is the qualifier call's arguments joined with "|"; and on any
\* line whose first template call is an accepted translation call, that call's entry
\* has no qualifier.
C7_QualifierThenTranslation ==
    [][RecordsLine =>
          LET segments == TokensOf[line'] IN
          /\ (/\ Len(segments) = 1
              /\ Len(segments[1]) = 2
              /\ QualifierShape(segments[1][1])
              /\ Accepted(segments[1][2]))
             => /\ Len(NewEntries) = 1
                /\ NewEntries[1].qualifier = Join(BAR, Tail(segments[1][1]))
                /\ [NewEntries[1] EXCEPT !.qualifier = None]
                       = decode_term(segments[1][2]).value
          /\ (Len(Calls(line')) >= 1 /\ Accepted(Calls(line')[1].codeblock))
             => (Len(NewEntries) >= 1 /\ NewEntries[1].qualifier = None)]_vars

\* C7 witness: "* {{qualifier|formal}} {{t|es|hola}}" was read in a block and the
\* last entry is hola, qualified formal.
C7_Witness ==
    /\ pc = "reading"
    /\ recording
    /\ line = L_qual
    /\ Len(group.translations) >= 1
    /\ group.translations[Len(group.translations)].translation = W_hola
    /\ group.translations[Len(group.translations)].qualifier = W_formal

\* C8: every row executed comes from a group that a block-close line appended while
\* that group was the open one; a group superseded by a block-open line or still
\* open at the end of the stream gives no row.
C8_OnlyClosedGroupsEmit ==
    \A k \in 1..Len(rows) : rows[k].group_id \in closed_ids

\* C8 witness: the run ended with rows, and an accepted call stood in a group that
\* was never closed.
C8_Witness ==
    /\ pc = "done"
    /\ rows # <<>>
    /\ \E k \in 1..Len(decoded) : decoded[k].group_id \notin closed_ids

\* C9 as claimed: every entry appended while a line is processed carries the
\* qualifier call last seen before it anywhere in the line, later comma segments
\* included.
C9_QualifierSpansLine ==
    [][RecordsLine =>
          \A k \in 1..Len(NewEntries) :
              k <= Len(AcceptedCalls(line')) =>
                  NewEntries[k].qualifier
                      = QualifierInLine(line', AcceptedCalls(line')[k])]_vars

\* C9 as amended: every entry appended while a line is processed carries the
\* qualifier call last seen before it in its own comma segment, and none when its
\* segment has no qualifier call before it.
C9_QualifierSpansSegment ==
    [][RecordsLine =>
          /\ Len(NewEntries) = Len(AcceptedCalls(line'))
          /\ \A k \in 1..Len(NewEntries) :
                NewEntries[k].qualifier
                    = QualifierInSegment(line', AcceptedCalls(line')[k])]_vars

\* C9 witness: the line with {{qualifier|f|g}}, two accepted calls, a comma and one
\* more accepted call was read in a block: the first two entries carry f|g, the
\* entry after the comma carries none.
C9_Witness ==
    /\ pc = "reading"
    /\ recording
    /\ line = L_multi
    /\ Len(group.translations) >= 3
    /\ LET n == Len(group.translations) IN
       /\ group.translations[n - 2].qualifier = W_f \o BAR \o W_g
       /\ group.translations[n - 1].qualifier = W_f \o BAR \o W_g
       /\ group.translations[n].qualifier = None

\* C10: every element of every page's group list is a TranslationGroup, never None,
\* and the drain at the end of the stream completes.
C10_GroupsNeverAbsent ==
    /\ NoGroup \notin StoredGroups
    /\ pc # "crashed"

====
